---- MODULE Spec2Model ----
(***************************************************************************)
(* Model of the ETL core of the analytics dashboard (src/src/etl.py):      *)
(* load_customers, load_merchants, load_sales, enrich_and_metrics and      *)
(* run_pipeline_from_folders with the metrics cache file.                  *)
(* The programs that call the pipeline (src/web_dashboard.py,              *)
(* src/api/dashboard.py, the Streamlit and command-line programs) are      *)
(* modelled by their answer to the pipeline's outcome.                     *)
(*                                                                         *)
(* Text values are sequences of one-character strings, so that trimming,   *)
(* lower-casing and digit filtering are computed character by character.   *)
(* A missing cell (pandas NaN) is the empty sequence: read_csv never       *)
(* yields an empty string, it yields NaN.                                  *)
(***************************************************************************)
EXTENDS Integers, Sequences, FiniteSets, TLC

\* ------------------------------------------------------------------ bounds
\* rows of the concatenated customer table when deduplication is explored
MaxCustRows == 3
\* rows of the customer table when the registration date is explored
MaxSinceRows == 1

VARIABLES
    custIn,     \* the concatenated customer files: [cols, rows]
    custUnreadable, \* a further discovered customer file cannot be parsed
    merchIn,    \* the table load_merchants returns: [rows, pad, columns]
    salesIn,    \* the table load_sales returns, one row per parsed file
    sortTies,   \* how this build's default sort orders equal figures
    cacheWritable, \* metrics_cache.json can be opened for writing
    workbook,   \* a merchant master workbook: its sheets, in file order
    salesFiles, \* the discovered sales files: [name, lines]
    merchLoaded, \* what load_merchants made of the workbook
    salesLoaded, \* what load_sales made of the sales files
    cache,      \* metrics_cache.json
    cache_before, \* metrics_cache.json as the current run found it
    cache_ops,  \* the current run's opens of metrics_cache.json, in order
    pc,         \* position of the current run
    run,        \* number of the current run
    customers,  \* this run's load_customers() table
    enriched,   \* this run's enriched merchant table
    metrics,    \* this run's metrics
    previous_metrics, \* what this run read from the cache
    report,     \* this run's diff report
    error,      \* the exception that ended this run, "" if none
    results,    \* what the completed runs returned, in order
    frontend,   \* the program that invoked the pipeline
    response,   \* what that program answered
    invocation  \* invocations that overlap in time, each with its position

inputs == <<custIn, custUnreadable, merchIn, salesIn, sortTies,
            cacheWritable, workbook, salesFiles>>
loaders == <<merchLoaded, salesLoaded>>
locals == <<customers, enriched, metrics, previous_metrics, report, error,
            cache_ops>>
outside == <<frontend, response, invocation>>
vars == <<inputs, loaders, cache, cache_before, pc, run, locals, results,
          outside>>

\* ------------------------------------------------------------ src/config.py
\* Instants are whole hours since 2025-07-01 00:00; TODAY is 2025-08-11 00:00.
TODAY == 984

\* ------------------------------------------------------------- text helpers
NaN == <<>>

\* the elements of s at the positions in keep, in order
SelectIdx(s, keep) ==
    LET F[n \in 0..Len(s)] ==
            IF n = 0 THEN <<>>
            ELSE IF n \in keep THEN Append(F[n-1], s[n]) ELSE F[n-1]
    IN F[Len(s)]

\* Series.astype(str): NaN becomes the text "nan"
AsStr(v) == IF v = NaN THEN <<"n", "a", "n">> ELSE v

\* str.lower() on the letters the inputs use
LowerChar(c) ==
    CASE c = "A" -> "a"
      [] c = "B" -> "b"
      [] c = "Y" -> "y"
      [] c = "N" -> "n"
      [] c = "O" -> "o"
      [] c = "I" -> "i"
      [] OTHER   -> c

Lower(s) == [i \in 1..Len(s) |-> LowerChar(s[i])]

\* str.strip(): leading and trailing blanks removed
RECURSIVE LStrip(_)
LStrip(s) == IF s # <<>> /\ Head(s) = " " THEN LStrip(Tail(s)) ELSE s

RECURSIVE RStrip(_)
RStrip(s) ==
    IF s # <<>> /\ s[Len(s)] = " " THEN RStrip(SubSeq(s, 1, Len(s) - 1)) ELSE s

Strip(s) == RStrip(LStrip(s))

\* str.upper() on the letters the inputs use
UpperChar(c) ==
    CASE c = "a" -> "A"
      [] c = "b" -> "B"
      [] c = "y" -> "Y"
      [] c = "n" -> "N"
      [] OTHER   -> c

Upper(s) == [i \in 1..Len(s) |-> UpperChar(s[i])]

\* ------------------------------------------------- load_customers (etl.py)
\* A customer row: id is NaN or <<n>>; email, phone and marketing are NaN or
\* text; since is the registration text, by the instant it parses to.
NaT == [nat |-> TRUE, t |-> 0]

\* pd.to_datetime(errors="coerce"): text that does not parse becomes NaT
ToDatetime(raw) ==
    IF raw.parses THEN [nat |-> FALSE, t |-> raw.t] ELSE NaT

\* (a slip: whole days rounded towards zero, so -1 hour is day 0)
TimedeltaDaysTowardsZero(hours) ==
    IF hours >= 0 THEN hours \div 24 ELSE -((-hours) \div 24)

\* Timedelta.days: whole days, rounded towards minus infinity
TimedeltaDays(hours) == hours \div 24

\* (a slip: the clock instead of the frozen TODAY; a later run is made a
\* day later)
ActiveFlag30dByTheClock(since) ==
    /\ ~since.nat
    /\ TimedeltaDays(TODAY + (run - 1) * 24 - since.t) >= 0
    /\ TimedeltaDays(TODAY + (run - 1) * 24 - since.t) < 30

\* (TODAY - since).dt.days.between(0, 30, inclusive="left"); NaT gives False
ActiveFlag30d(since) ==
    /\ ~since.nat
    /\ TimedeltaDays(TODAY - since.t) >= 0
    /\ TimedeltaDays(TODAY - since.t) < 30

\* the "__ep" column: email and phone as text, joined by "|"
EmailPhoneKey(r) == AsStr(r.email) \o <<"|">> \o AsStr(r.phone)

\* DataFrame.drop_duplicates(col): of the rows idx, the first of every
\* key is kept; key[n] is the cell of row n in that column
DropDuplicates(idx, key) ==
    SelectIdx(idx, {n \in 1..Len(idx) :
        \A k \in 1..(n - 1) : key[idx[k]] # key[idx[n]]})

\* a column of the table, by row number
IdColumn(t) == [n \in 1..Len(t.rows) |-> t.rows[n].id]
EpColumn(t) == [n \in 1..Len(t.rows) |-> EmailPhoneKey(t.rows[n])]

Range1(n) == [i \in 1..n |-> i]

\* (a slip: the ID rows kept without drop_duplicates)
WithIdNotDeduplicated(t) ==
    IF "id" \in t.cols
    THEN SelectIdx(Range1(Len(t.rows)),
                   {n \in 1..Len(t.rows) : t.rows[n].id # NaN})
    ELSE <<>>

\* rows with an ID, deduplicated by ID (step 1)
WithId(t) ==
    IF "id" \in t.cols
    THEN DropDuplicates(
             SelectIdx(Range1(Len(t.rows)),
                       {n \in 1..Len(t.rows) : t.rows[n].id # NaN}),
             IdColumn(t))
    ELSE <<>>

\* rows without an ID, before any deduplication
WithoutIdRaw(t) ==
    IF "id" \in t.cols
    THEN SelectIdx(Range1(Len(t.rows)),
                   {n \in 1..Len(t.rows) : t.rows[n].id = NaN})
    ELSE Range1(Len(t.rows))

\* (a slip: step 3, the exclusion of colliding rows, left out)
WithoutIdNoCollisionStep(t) ==
    IF "email" \in t.cols /\ "phone" \in t.cols /\ WithoutIdRaw(t) # <<>>
    THEN DropDuplicates(WithoutIdRaw(t), EpColumn(t))
    ELSE WithoutIdRaw(t)

\* steps 2 and 3: dedup by email+phone, then drop rows colliding with the
\* ID set; both only when an email and a phone column exist
WithoutId(t) ==
    LET raw == WithoutIdRaw(t)
        ded == DropDuplicates(raw, EpColumn(t))
        ids == WithId(t)
        idKeys == {EmailPhoneKey(t.rows[ids[k]]) : k \in 1..Len(ids)}
    IN  IF "email" \in t.cols /\ "phone" \in t.cols /\ raw # <<>>
        THEN IF ids # <<>>
             THEN SelectIdx(ded, {n \in 1..Len(ded) :
                      EmailPhoneKey(t.rows[ded[n]]) \notin idKeys})
             ELSE ded
        ELSE raw

MarketingTokens ==
    { <<"t","r","u","e">>, <<"y","e","s">>, <<"1">>, <<"y">>,
      <<"o","p","t","e","d"," ","i","n">> }

\* one row of the returned table; src is the input row it came from
OutRow(t, n) ==
    LET r == t.rows[n]
        since == IF "since" \in t.cols THEN ToDatetime(r.since) ELSE NaT
    IN  [ src            |-> n,
          customer_id    |-> r.id,
          email          |-> r.email,
          phone          |-> r.phone,
          customer_since |-> since,
          active_flag    |-> IF "since" \in t.cols
                             THEN ActiveFlag30d(since) ELSE FALSE,
          marketing_opt_in |->
              IF "marketing" \in t.cols
              THEN Lower(AsStr(r.marketing)) \in MarketingTokens
              ELSE FALSE ]

\* load_customers: the kept ID rows, then the kept ID-less rows
load_customers(t) ==
    LET kept == WithId(t) \o WithoutId(t)
    IN  [k \in 1..Len(kept) |-> OutRow(t, kept[k])]

\* --------------------------------------------- enrich_and_metrics (etl.py)
\* Money is counted in units of 1/800 dollar: a cent is 8 units and an
\* eighth of a dollar is 100 units.  Eighths are exact in binary floating
\* point, so sums of the amounts used here are exact and round(x, 2) sees
\* the true value.  The estimates are counted in units of 1/48000 dollar
\* (a sixtieth of a money unit), which makes x / 60.0 exact as well; the
\* float error of the code's divisions, about 1e-16 of the value, is far
\* below every difference the model can show (at least 1/48000 dollar).
Dollars(n) == n * 800

\* a numeric cell is NaN or <<n>>; Series.fillna(0)
FillNa0(cell) == IF cell = NaN THEN 0 ELSE cell[1]

\* fallback_60d = mtd_volume + last_month_volume, each NaN filled with 0
Fallback60d(r) == FillNa0(r.mtd_volume) + FillNa0(r.last_month_volume)

\* (a slip: the double count the coalesce exists to avoid)
CoalesceSummingBoth(item, fallback) == FillNa0(item) + fallback

\* np.where(item.notna(), item, fallback_60d)
Coalesce(item, fallback) == IF item # NaN THEN item[1] ELSE fallback

\* (a slip: any non-zero figure counts as active)
MerchantActiveNonZero(net) == net # 0

\* m["net_sales_60d"] > 0
MerchantActive(net) == net > 0

\* net / 60.0, net * 7.0 / 60.0 and net / 2.0, in units of 1/48000 dollar
DailyEst(net)   == net
WeeklyEst(net)  == net * 7
MonthlyEst(net) == net * 30

\* one row of the merged table: master row n joined with an item figure
EnrichRow(r, n, item) ==
    LET net == Coalesce(item, Fallback60d(r))
    IN  [ row                |-> n,
          merchant_name_key  |-> r.merchant_name_key,
          mtd_volume         |-> FillNa0(r.mtd_volume),
          last_month_volume  |-> FillNa0(r.last_month_volume),
          net_sales_60d_item |-> item,
          net_sales_60d      |-> net,
          active_flag        |-> MerchantActive(net),
          daily_est          |-> DailyEst(net),
          weekly_est         |-> WeeklyEst(net),
          monthly_est        |-> MonthlyEst(net) ]

\* m.merge(s, on="merchant_name_key", how="left"): every master row, in
\* order, once per sales row with its key, or once with a NaN item figure
LeftJoin(rows, s) ==
    LET Hits(n) == SelectIdx(Range1(Len(s)), {k \in 1..Len(s) :
                       s[k].merchant_name_key = rows[n].merchant_name_key})
        For(n)  == IF Hits(n) = <<>>
                   THEN <<EnrichRow(rows[n], n, NaN)>>
                   ELSE [k \in 1..Len(Hits(n)) |->
                            EnrichRow(rows[n], n,
                                      <<s[Hits(n)[k]].net_sales_60d_item>>)]
        F[n \in 0..Len(rows)] ==
            IF n = 0 THEN <<>> ELSE F[n-1] \o For(n)
    IN  F[Len(rows)]

\* The master file may hold `pad` further rows after the listed ones, each
\* with zero volumes and a name that no sales file has: such a row joins
\* nothing and has net_sales_60d = 0.  position is the row's place in the
\* merged table.
PadRow(position) ==
    [ row                |-> position,
      merchant_name_key  |-> "(other)",
      mtd_volume         |-> 0,
      last_month_volume  |-> 0,
      net_sales_60d_item |-> NaN,
      net_sales_60d      |-> 0,
      active_flag        |-> MerchantActive(0),
      daily_est          |-> DailyEst(0),
      weekly_est         |-> WeeklyEst(0),
      monthly_est        |-> MonthlyEst(0) ]

EnrichedTable(m, s) == [rows |-> LeftJoin(m.rows, s), pad |-> m.pad]

TableLen(e) == Len(e.rows) + e.pad

RECURSIVE SumOver(_, _)
SumOver(rows, field) ==
    IF rows = <<>> THEN 0
    ELSE Head(rows)[field] + SumOver(Tail(rows), field)

\* Series.sum() of a boolean column
CountTrue(rows, field) == Cardinality({k \in 1..Len(rows) : rows[k][field]})

\* n / d rounded to the nearest integer, ties to the even one (d > 0)
RoundHalfEven(n, d) ==
    LET q == n \div d
        r == n % d
    IN  IF 2 * r < d THEN q
        ELSE IF 2 * r > d THEN q + 1
        ELSE IF q % 2 = 0 THEN q ELSE q + 1

\* round(units / per dollars, 2), in cents.  per = 1 and per = 2 divide
\* exactly; for per = 60 the float quotient is inexact, and at an exact
\* decimal tie Python rounds by the representation error rather than to
\* even: nothing below depends on the direction of such a tie.
RoundCents(units, per) == RoundHalfEven(units, 8 * per)

\* sort_values("net_sales_60d", ascending=False) with the default kind
\* (quicksort), which is not stable: rows with equal figures come in an
\* order the build decides.  Two builds are modelled, one that keeps equal
\* figures in row order and one that reverses them.
SortsBefore(a, b, ties) ==
    \/ a.net_sales_60d > b.net_sales_60d
    \/ /\ a.net_sales_60d = b.net_sales_60d
       /\ IF ties = "stable" THEN a.pos < b.pos ELSE a.pos > b.pos

\* the rows that can reach the first three places: the joined rows and, of
\* the pad rows, the three that the tie order puts first
TopCandidates(e, ties) ==
    LET n == Len(e.rows)
        k == IF e.pad < 3 THEN e.pad ELSE 3
    IN  { [pos |-> i, r |-> e.rows[i]] : i \in 1..n } \cup
        { [pos |-> p, r |-> PadRow(p)] :
            p \in IF ties = "stable" THEN (n + 1)..(n + k)
                  ELSE (n + e.pad - k + 1)..(n + e.pad) }

TopEntry(c) ==
    [ pos           |-> c.pos,
      name          |-> c.r.merchant_name_key,
      net_sales_60d |-> c.r.net_sales_60d,
      daily_est     |-> c.r.daily_est,
      weekly_est    |-> c.r.weekly_est,
      monthly_est   |-> c.r.monthly_est ]

\* .head(3) of the sorted table; pos is the row's place before sorting
Top3(e, ties) ==
    LET cand == { [pos |-> c.pos, net_sales_60d |-> c.r.net_sales_60d, r |-> c.r]
                    : c \in TopCandidates(e, ties) }
        Rank(c) == Cardinality({d \in cand : SortsBefore(d, c, ties)})
        size == IF Cardinality(cand) < 3 THEN Cardinality(cand) ELSE 3
    IN  [k \in 1..size |-> TopEntry(CHOOSE c \in cand : Rank(c) = k - 1)]

\* the metrics dict; platform figures are in cents
Metrics(e, cust, ties) ==
    LET total_60d == SumOver(e.rows, "net_sales_60d")
                         + e.pad * PadRow(0).net_sales_60d
        merchants_total == TableLen(e)
        merchants_active ==
            CountTrue(e.rows, "active_flag")
                + (IF PadRow(0).active_flag THEN e.pad ELSE 0)
        customers_total == Len(cust)
        customers_active == CountTrue(cust, "active_flag")
    IN  [ merchants_total    |-> merchants_total,
          merchants_active   |-> merchants_active,
          merchants_inactive |-> merchants_total - merchants_active,
          merchants_with_item_data |->
              Cardinality({k \in 1..Len(e.rows) :
                              e.rows[k].net_sales_60d_item # NaN}),
          customers_total    |-> customers_total,
          customers_active   |-> customers_active,
          customers_inactive |-> customers_total - customers_active,
          customers_marketing |->
              CountTrue(cust, "marketing_opt_in"),
          platform_total_60d |-> RoundCents(total_60d, 1),
          platform_daily     |-> RoundCents(total_60d, 60),
          platform_weekly    |-> RoundCents(total_60d * 7, 60),
          platform_monthly   |-> RoundCents(total_60d, 2),
          top3               |-> Top3(e, ties) ]

\* ------------------------------------------------------- customer inputs
IdValues    == {NaN, <<41>>, <<42>>}
EmailValues == {NaN, <<"a">>, <<" ", "A">>}
PhoneValues == {NaN, <<"5">>, <<"5", "-">>}
Unparsed    == [parses |-> FALSE, t |-> 0]
At(t)       == [parses |-> TRUE, t |-> t]

\* registration texts around the edges of the 30-day window
SinceValues ==
    { Unparsed,
      At(TODAY + 48), At(TODAY + 1), At(TODAY), At(TODAY - 1),
      At(TODAY - 30 * 24 + 1), At(TODAY - 30 * 24), At(TODAY - 30 * 24 - 1) }

\* a column that the files do not have holds NaN in every row
CustRows(cols, sinces) ==
    { [ id        |-> i, email |-> e, phone |-> p, since |-> s,
        marketing |-> NaN ] :
        i \in IF "id" \in cols THEN IdValues ELSE {NaN},
        e \in IF "email" \in cols THEN EmailValues ELSE {NaN},
        p \in IF "phone" \in cols THEN PhoneValues ELSE {NaN},
        s \in IF "since" \in cols THEN sinces ELSE {Unparsed} }

\* tables whose ID, email and phone cells vary (no registration column)
IsDedupInput(t) ==
    \E c \in SUBSET {"id", "email", "phone"}, n \in 1..MaxCustRows :
        \E r \in [1..n -> CustRows(c, {})] : t = [cols |-> c, rows |-> r]

\* tables whose registration cell varies
IsSinceInput(t) ==
    \E c \in {{"since"}, {"id", "since"}}, n \in 1..MaxSinceRows :
        \E r \in [1..n -> CustRows(c, SinceValues)] :
            t = [cols |-> c, rows |-> r]

\* emails and phones that hold the character the "__ep" column joins with
BarEmailValues == { <<"a">>, <<"a", "|", "b">> }
BarPhoneValues == { <<"c">>, <<"b", "|", "c">> }

\* rows of the customer table when such texts are explored
MaxBarRows == 2

\* tables of rows with an email and a phone, some with an ID
IsBarInput(t) ==
    \E n \in 1..MaxBarRows :
        \E i \in [1..n -> {NaN, <<41>>}], e \in [1..n -> BarEmailValues],
           p \in [1..n -> BarPhoneValues] :
            t = [ cols |-> {"id", "email", "phone"},
                  rows |-> [k \in 1..n |->
                              [ id |-> i[k], email |-> e[k], phone |-> p[k],
                                since |-> Unparsed, marketing |-> NaN ]] ]

\* marketing cells: tokens in either case, other texts, a missing cell and
\* the text of the number 1.0 (a numeric column with missing cells)
MarketingValues ==
    { NaN, <<"Y">>, <<"y", "e", "s">>, <<"n">>, <<"1">>,
      <<"1", ".", "0">>, <<"O", "p", "t", "e", "d", " ", "I", "n">> }

\* rows of the customer table when the marketing value is explored
MaxMarketingRows == 2

\* tables whose marketing cell varies, with and without the column
IsMarketingInput(t) ==
    \E n \in 1..MaxMarketingRows :
        \/ \E v \in [1..n -> MarketingValues] :
              t = [ cols |-> {"email", "marketing"},
                    rows |-> [i \in 1..n |->
                                [ id |-> NaN, email |-> <<"a">>, phone |-> NaN,
                                  since |-> Unparsed, marketing |-> v[i] ]] ]
        \/ t = [ cols |-> {"email"},
                 rows |-> [i \in 1..n |->
                             [ id |-> NaN, email |-> <<"a">>, phone |-> NaN,
                               since |-> Unparsed, marketing |-> NaN ]] ]

\* ------------------------------------------------------- merchant inputs
\* master rows as load_merchants returns them (volumes currency-parsed)
MerchantKinds ==
    { [ merchant_name_key |-> "X", mtd_volume |-> <<Dollars(100)>>,
        last_month_volume |-> <<Dollars(100)>> ],
      [ merchant_name_key |-> "Y", mtd_volume |-> <<Dollars(300)>>,
        last_month_volume |-> <<Dollars(150)>> ],
      [ merchant_name_key |-> "Z", mtd_volume |-> NaN,
        last_month_volume |-> <<0>> ],
      \* a volume of 0.125 dollar: a fraction of a cent
      [ merchant_name_key |-> "W", mtd_volume |-> <<100>>,
        last_month_volume |-> NaN ],
      \* a negative volume (parse_currency keeps the minus sign)
      [ merchant_name_key |-> "V", mtd_volume |-> <<-Dollars(100)>>,
        last_month_volume |-> <<0>> ] }

\* rows of load_sales: one per parsed file; two files can give one key
SalesKinds ==
    { [merchant_name_key |-> "X", net_sales_60d_item |-> Dollars(250)],
      [merchant_name_key |-> "X", net_sales_60d_item |-> 0],
      [merchant_name_key |-> "Y", net_sales_60d_item |-> Dollars(100)] }

\* assert len(enriched) >= 700
MerchantFloor == 700

PadChoices == {0, MerchantFloor - 2, MerchantFloor}

\* ------------------------------------------------------------- the cache
\* A decoded JSON document.  An object is given by its fields that hold
\* numbers or records (doc, a function from the keys) and by the keys of
\* its fields that hold a text or null (text); a bare number by its value.
JsonObject(d, t) == [type |-> "object", doc |-> d, text |-> t, number |-> 0]
JsonNumber(n)    == [type |-> "number", doc |-> <<>>, text |-> {}, number |-> n]

\* Python's truth value of a decoded document
Truthy(j) ==
    IF j.type = "number" THEN j.number # 0
    ELSE DOMAIN j.doc # {} \/ j.text # {}

\* metrics_cache.json is missing, cannot be opened for reading, holds text
\* that is not JSON, or holds a JSON document
CacheMissing    == [kind |-> "missing", doc |-> <<>>]
CacheUnreadable == [kind |-> "unreadable", doc |-> <<>>]
CacheGarbage    == [kind |-> "garbage", doc |-> <<>>]
CacheJson(j)    == [kind |-> "json", doc |-> j]
\* ... or holds the text save_current_metrics wrote
CacheSaved(text) == [kind |-> "saved", doc |-> text]

\* DataFrame.to_dict("records") of top3: the listed columns only
Top3Records(top3) ==
    [k \in 1..Len(top3) |->
        [ name          |-> top3[k].name,
          net_sales_60d |-> top3[k].net_sales_60d,
          daily_est     |-> top3[k].daily_est,
          weekly_est    |-> top3[k].weekly_est,
          monthly_est   |-> top3[k].monthly_est ]]

\* what save_current_metrics writes
JsonDoc(m) == [m EXCEPT !.top3 = Top3Records(m.top3)]

\* the fields of the metrics that are floats (round(x, 2)); the counts
\* are ints
FloatKeys ==
    {"platform_total_60d", "platform_daily", "platform_weekly",
     "platform_monthly"}

\* json.dump of a float is float.__repr__: the shortest decimal text that
\* reads back as the same float.  For an amount of c cents that is the
\* whole dollars, a point and one digit when the cents are whole dimes
\* ("7.5", "12.0"), two digits otherwise ("0.12", "3.05").
FloatRepr(c) ==
    LET a == IF c < 0 THEN -c ELSE c
        f == a % 100
    IN  [ neg   |-> c < 0,
          whole |-> a \div 100,
          frac  |-> IF f % 10 = 0 THEN <<f \div 10>>
                    ELSE <<f \div 10, f % 10>> ]

\* (a slip: the digits after the point read as a count of cents)
FloatParseFracAsCents(t) ==
    LET a == t.whole * 100
                 + (IF Len(t.frac) = 1 THEN t.frac[1]
                    ELSE t.frac[1] * 10 + t.frac[2])
    IN  IF t.neg THEN -a ELSE a

\* json.load of a number with a point: float(text), in cents
FloatParse(t) ==
    LET a == t.whole * 100
                 + (IF Len(t.frac) = 1 THEN t.frac[1] * 10
                    ELSE t.frac[1] * 10 + t.frac[2])
    IN  IF t.neg THEN -a ELSE a

\* json.dump(metrics_copy, f, indent=2): the text of the document, by
\* field; ints and the records of top3 are shown by their value
json_dump(d) ==
    [k \in DOMAIN d |-> IF k \in FloatKeys THEN FloatRepr(d[k]) ELSE d[k]]

\* json.load(f) of a text that json_dump wrote
json_load(text) ==
    JsonObject([k \in DOMAIN text |->
                   IF k \in FloatKeys THEN FloatParse(text[k]) ELSE text[k]],
               {})

\* ... or was emptied by open(..., "w") and not yet written
CacheTruncated == [kind |-> "truncated", doc |-> <<>>]
\* ... or holds the text of one dump followed by the last `tail`
\* characters of an earlier, longer one
CacheMixed(text, tail) ==
    [kind |-> "mixed", doc |-> [text |-> text, tail |-> tail]]

\* load_previous_metrics: FileNotFoundError and JSONDecodeError give {}
\* (an empty file and a document followed by more text are
\* JSONDecodeErrors); any other exception of open() or json.load() leaves
\* the function
load_previous_metrics(c) ==
    CASE c.kind \in {"missing", "garbage", "truncated", "mixed"} ->
            [raised |-> "", value |-> JsonObject(<<>>, {})]
      [] c.kind = "unreadable" ->
            [raised |-> "load_previous_metrics: PermissionError",
             value  |-> JsonObject(<<>>, {})]
      [] c.kind = "json" ->
            [raised |-> "", value |-> c.doc]
      [] c.kind = "saved" ->
            [raised |-> "", value |-> json_load(c.doc)]

\* the keys of compare_keys, in the order of the loop
compare_keys ==
    << "merchants_total", "merchants_active", "merchants_with_item_data",
       "customers_total", "customers_active", "customers_marketing",
       "platform_total_60d", "platform_daily", "platform_weekly",
       "platform_monthly" >>

CompareKeys == {compare_keys[i] : i \in 1..Len(compare_keys)}

\* a report that lists every compared field the two snapshots share
print_diff_report_listing_unchanged(current, previous) ==
    [ raised     |-> "",
      first_run  |-> ~Truthy(previous),
      changed    |-> { k \in CompareKeys :
                         k \in DOMAIN current /\ k \in DOMAIN previous.doc },
      no_changes |-> FALSE ]

\* print_diff_report: the first-run notice, or the header and one line per
\* compared field whose value changed, or the no-changes line.  `key in
\* previous_metrics` fails on a number, and current_val - previous_val
\* fails on a previous value that is not a number: the lines printed
\* before that stay printed.
print_diff_report(current, previous) ==
    IF ~Truthy(previous)
    THEN [raised |-> "", first_run |-> TRUE, changed |-> {},
          no_changes |-> FALSE]
    ELSE IF previous.type = "number"
    THEN [raised |-> "print_diff_report: TypeError", first_run |-> FALSE,
          changed |-> {}, no_changes |-> FALSE]
    ELSE
        LET n     == Len(compare_keys)
            fails == { i \in 1..n : /\ compare_keys[i] \in DOMAIN current
                                    /\ compare_keys[i] \in previous.text }
            stop  == IF fails = {} THEN n + 1
                     ELSE CHOOSE i \in fails : \A j \in fails : i <= j
            diff  == { compare_keys[i] : i \in
                         { j \in 1..(stop - 1) :
                             /\ compare_keys[j] \in DOMAIN current
                             /\ compare_keys[j] \in DOMAIN previous.doc
                             /\ current[compare_keys[j]]
                                    # previous.doc[compare_keys[j]] } }
        IN  [ raised     |-> IF fails = {} THEN ""
                             ELSE "print_diff_report: TypeError",
              first_run  |-> FALSE,
              changed    |-> diff,
              no_changes |-> fails = {} /\ diff = {} ]

\* a snapshot left by an earlier run over other files: MerchantFloor
\* merchants without volume, no customers
StaleSnapshot ==
    JsonDoc(Metrics([rows |-> <<>>, pad |-> MerchantFloor], <<>>, "stable"))

\* a JSON object with two of the compared fields and nothing else
PartialSnapshot == [merchants_total |-> MerchantFloor, customers_total |-> 1]

\* a JSON object whose customers_total is a text
TextSnapshot == JsonObject([merchants_total |-> MerchantFloor],
                           {"customers_total"})

\* what the cache file can hold when a run starts
CacheStates ==
    { CacheMissing, CacheUnreadable, CacheGarbage,
      CacheJson(JsonObject(StaleSnapshot, {})),
      CacheJson(JsonObject(PartialSnapshot, {})),
      CacheJson(TextSnapshot),
      CacheJson(JsonNumber(0)), CacheJson(JsonNumber(5)) }

\* ------------------------------------------- run_pipeline_from_folders
NoTable   == <<>>
NoMetrics == <<>>
NoReport  == <<>>

\* the pipeline is run by itself (python src/etl.py), one run at a time
NoResponse == [kind |-> "pending", names |-> ""]
NoInvocations == <<>>
NoneOutside ==
    /\ frontend = "etl"
    /\ response = NoResponse
    /\ invocation = NoInvocations

InitRun ==
    /\ pc = "start"
    /\ run = 1
    /\ cache_before = cache
    /\ cache_ops = <<>>
    /\ customers = NoTable
    /\ enriched = NoTable
    /\ metrics = NoMetrics
    /\ previous_metrics = NoMetrics
    /\ report = NoReport
    /\ error = ""
    /\ results = <<>>

\* cust = load_customers()  (merch and sales are merchIn and salesIn).
\* The read_csv / read_excel of each discovered file is not guarded: a file
\* that pandas cannot parse ends the call with the parser's exception.
LoadCustomers ==
    /\ pc = "start"
    /\ IF custUnreadable
       THEN /\ pc' = "raised"
            /\ error' = "load_customers: ParserError"
            /\ customers' = customers
       ELSE /\ pc' = "loaded"
            /\ error' = error
            /\ customers' = load_customers(custIn)
    /\ UNCHANGED <<inputs, outside, loaders, cache_ops, cache, cache_before,
                   run, enriched,
                   metrics, previous_metrics, report, results>>

\* the columns enrich_and_metrics selects by label: the merge key, and the
\* two name columns of top3
SelectedColumns == {"merchant_name_key", "legal_name", "dba_name"}

\* enriched, metrics = enrich_and_metrics(merch, cust, sales): the merge
\* on merchant_name_key raises KeyError when the master table lacks it,
\* and so does .loc[:, ["legal_name", "dba_name", ...]] for top3 when the
\* table lacks one of the name columns
Enrich ==
    /\ pc = "loaded"
    /\ IF ~(SelectedColumns \subseteq merchIn.columns)
       THEN /\ pc' = "raised"
            /\ error' = "enrich_and_metrics: KeyError"
            /\ enriched' = enriched
            /\ metrics' = metrics
       ELSE /\ pc' = "enriched"
            /\ error' = error
            /\ enriched' = EnrichedTable(merchIn, salesIn)
            /\ metrics' = Metrics(enriched', customers, sortTies)
    /\ UNCHANGED <<inputs, outside, loaders, cache_ops, cache, cache_before,
                   run, customers,
                   previous_metrics, report, results>>

Abs(x) == IF x < 0 THEN -x ELSE x

\* abs(daily_sum_check - platform_total_60d / 60.0), in 1/48000 dollar
WindowMathDiff(e, m) ==
    Abs(SumOver(e.rows, "daily_est") + e.pad * PadRow(0).daily_est
            - m.platform_total_60d * 8)

\* math_diff < 1e-6 (dollars)
WindowMathOk(e, m) == WindowMathDiff(e, m) * 1000000 < 48000

\* a validation without the merchant-count assertion
ValidateWithoutFloor ==
    /\ pc = "enriched"
    /\ IF ~WindowMathOk(enriched, metrics)
       THEN pc' = "raised" /\ error' = "Window math mismatch"
       ELSE pc' = "validated" /\ error' = error
    /\ UNCHANGED <<inputs, outside, loaders, cache_ops, cache, cache_before,
                   run, customers,
                   enriched, metrics, previous_metrics, report, results>>

\* the two assertions; a failed one raises AssertionError and ends the run
Validate ==
    /\ pc = "enriched"
    /\ IF TableLen(enriched) < MerchantFloor
       THEN pc' = "raised" /\ error' = "Merchant count unexpectedly low"
       ELSE IF ~WindowMathOk(enriched, metrics)
       THEN pc' = "raised" /\ error' = "Window math mismatch"
       ELSE pc' = "validated" /\ error' = error
    /\ UNCHANGED <<inputs, outside, loaders, cache_ops, cache, cache_before,
                   run, customers,
                   enriched, metrics, previous_metrics, report, results>>

\* previous_metrics = load_previous_metrics(): the one open(..., "r")
LoadPrevious ==
    /\ pc = "validated"
    /\ cache_ops' = Append(cache_ops, "read")
    /\ LET r == load_previous_metrics(cache)
       IN  IF r.raised # ""
           THEN /\ pc' = "raised"
                /\ error' = r.raised
                /\ previous_metrics' = previous_metrics
           ELSE /\ pc' = "previous_loaded"
                /\ error' = error
                /\ previous_metrics' = r.value
    /\ UNCHANGED <<inputs, outside, loaders, cache, cache_before,
                   run, customers,
                   enriched, metrics, report, results>>

\* print_diff_report(metrics, previous_metrics)
PrintDiff ==
    /\ pc = "previous_loaded"
    /\ report' = print_diff_report(metrics, previous_metrics)
    /\ IF report'.raised # ""
       THEN pc' = "raised" /\ error' = report'.raised
       ELSE pc' = "diff_printed" /\ error' = error
    /\ UNCHANGED <<inputs, outside, loaders, cache_ops, cache, cache_before,
                   run, customers,
                   enriched, metrics, previous_metrics, results>>

\* save_current_metrics(metrics): open(..., "w") raises when the file
\* cannot be written, before anything is written; otherwise the file
\* holds the JSON text of the metrics
Save ==
    /\ pc = "diff_printed"
    /\ IF cacheWritable
       THEN /\ cache' = CacheSaved(json_dump(JsonDoc(metrics)))
            /\ cache_ops' = Append(cache_ops, "write")
            /\ pc' = "saved"
            /\ error' = error
       ELSE /\ cache' = cache
            /\ cache_ops' = cache_ops
            /\ pc' = "raised"
            /\ error' = "save_current_metrics: PermissionError"
    /\ UNCHANGED <<inputs, outside, loaders, cache_before, run, customers, enriched,
                   metrics, previous_metrics, report, results>>

\* return {"customers": ..., "merchants_enriched": ..., "metrics": ...};
\* run is the number of the run that returned it
Return ==
    /\ pc = "saved"
    /\ results' = Append(results, [ run                |-> run,
                                    customers          |-> customers,
                                    merchants_enriched |-> enriched,
                                    metrics            |-> metrics ])
    /\ pc' = "returned"
    /\ UNCHANGED <<inputs, outside, loaders, cache, cache_before, run, locals>>

\* number of runs explored
MaxRuns == 2

\* the pipeline is invoked again on the same files
NextRun ==
    /\ pc \in {"returned", "raised"}
    /\ run < MaxRuns
    /\ run' = run + 1
    /\ pc' = "start"
    /\ cache_before' = cache
    /\ cache_ops' = <<>>
    /\ customers' = NoTable
    /\ enriched' = NoTable
    /\ metrics' = NoMetrics
    /\ previous_metrics' = NoMetrics
    /\ report' = NoReport
    /\ error' = ""
    /\ UNCHANGED <<inputs, outside, loaders, cache, results>>

\* ------------------------------------------- overlapping invocations
\* Two processes (or threads) are inside run_pipeline_from_folders at the
\* same time.  Each has its own locals; they share the data folders and
\* metrics_cache.json.
Invocations == {1, 2}

NotBegun ==
    [ pc |-> "start", metrics |-> NoMetrics, previous_metrics |-> NoMetrics,
      report |-> NoReport, error |-> "" ]

\* rows of the larger customer folder
MaxConcRows == 10

\* a customer folder of n customers with distinct IDs
ManyCustomers(n) ==
    [ cols |-> {"id"},
      rows |-> [k \in 1..n |->
                  [ id |-> <<k>>, email |-> NaN, phone |-> NaN,
                    since |-> Unparsed, marketing |-> NaN ]] ]

\* number of decimal digits of n >= 0
RECURSIVE DigitCount(_)
DigitCount(n) == IF n < 10 THEN 1 ELSE 1 + DigitCount(n \div 10)

\* characters json.dump writes for an int and for a float
IntChars(n) == IF n < 0 THEN 1 + DigitCount(-n) ELSE DigitCount(n)
FloatChars(t) ==
    (IF t.neg THEN 1 ELSE 0) + DigitCount(t.whole) + 1 + Len(t.frac)

\* characters of the number texts of the scalar fields of a dumped
\* document.  Two dumps with the same top3 differ in length by the
\* difference of this count: keys, indentation and punctuation are the
\* same in every dump.
RECURSIVE NumberChars(_, _)
NumberChars(text, keys) ==
    IF keys = {} THEN 0
    ELSE LET k == CHOOSE x \in keys : TRUE
         IN  (IF k \in FloatKeys THEN FloatChars(text[k])
              ELSE IntChars(text[k]))
                 + NumberChars(text, keys \ {k})

ScalarChars(text) == NumberChars(text, DOMAIN text \ {"top3"})

\* The file after a writer that opened it with "w" wrote `text` at offset
\* 0 of its own descriptor and closed it (the document is smaller than
\* the buffer, so json.dump reaches the file as one write at close).  The
\* file was truncated by some open before; what another writer wrote
\* since then stays beyond the end of this text.  (top3 is the same in
\* the dumps compared here.)
Overwrite(c, text) ==
    LET tail == CASE c.kind = "saved" ->
                       ScalarChars(c.doc) - ScalarChars(text)
                  [] c.kind = "mixed" ->
                       ScalarChars(c.doc.text) + c.doc.tail
                           - ScalarChars(text)
                  [] OTHER -> 0
    IN  IF tail > 0 THEN CacheMixed(text, tail) ELSE CacheSaved(text)

\* the data folder is replaced while invocations are under way
ReplaceCustomerFiles ==
    /\ invocation # NoInvocations
    /\ custIn' = IF custIn = ManyCustomers(1)
                 THEN ManyCustomers(MaxConcRows) ELSE ManyCustomers(1)
    /\ UNCHANGED <<custUnreadable, merchIn, salesIn, sortTies, cacheWritable,
                   workbook, salesFiles, loaders, cache, cache_before, pc,
                   run, locals, results, outside>>

\* the steps of invocation p leave everything but the cache file and its
\* own locals as it is
OthersUnchanged ==
    UNCHANGED <<inputs, loaders, cache_before, pc, run, locals, results,
                frontend, response>>

\* load_customers, load_merchants, load_sales, enrich_and_metrics and the
\* two assertions: p reads the folders as they are now
Begin(p) ==
    /\ invocation # NoInvocations
    /\ invocation[p].pc = "start"
    /\ LET e == EnrichedTable(merchIn, salesIn)
           m == Metrics(e, load_customers(custIn), sortTies)
       IN  invocation' = [invocation EXCEPT ![p] =
               IF TableLen(e) < MerchantFloor
               THEN [@ EXCEPT !.pc = "raised",
                              !.error = "Merchant count unexpectedly low"]
               ELSE IF ~WindowMathOk(e, m)
               THEN [@ EXCEPT !.pc = "raised",
                              !.error = "Window math mismatch"]
               ELSE [@ EXCEPT !.pc = "validated", !.metrics = m]]
    /\ cache' = cache
    /\ OthersUnchanged

\* previous_metrics = load_previous_metrics()
ReadPrevious(p) ==
    /\ invocation # NoInvocations
    /\ invocation[p].pc = "validated"
    /\ LET r == load_previous_metrics(cache)
       IN  invocation' = [invocation EXCEPT ![p] =
               IF r.raised # ""
               THEN [@ EXCEPT !.pc = "raised", !.error = r.raised]
               ELSE [@ EXCEPT !.pc = "previous_loaded",
                              !.previous_metrics = r.value]]
    /\ cache' = cache
    /\ OthersUnchanged

\* print_diff_report(metrics, previous_metrics)
Diff(p) ==
    /\ invocation # NoInvocations
    /\ invocation[p].pc = "previous_loaded"
    /\ LET r == print_diff_report(invocation[p].metrics,
                                  invocation[p].previous_metrics)
       IN  invocation' = [invocation EXCEPT ![p] =
               IF r.raised # ""
               THEN [@ EXCEPT !.pc = "raised", !.error = r.raised,
                              !.report = r]
               ELSE [@ EXCEPT !.pc = "diff_printed", !.report = r]]
    /\ cache' = cache
    /\ OthersUnchanged

\* save_current_metrics: open("metrics_cache.json", "w") empties the file
OpenForWrite(p) ==
    /\ invocation # NoInvocations
    /\ invocation[p].pc = "diff_printed"
    /\ IF cacheWritable
       THEN /\ cache' = CacheTruncated
            /\ invocation' = [invocation EXCEPT ![p].pc = "opened"]
       ELSE /\ cache' = cache
            /\ invocation' = [invocation EXCEPT
                   ![p].pc = "raised",
                   ![p].error = "save_current_metrics: PermissionError"]
    /\ OthersUnchanged

\* save_current_metrics: json.dump and the end of the with block
DumpAndClose(p) ==
    /\ invocation # NoInvocations
    /\ invocation[p].pc = "opened"
    /\ cache' = Overwrite(cache, json_dump(JsonDoc(invocation[p].metrics)))
    /\ invocation' = [invocation EXCEPT ![p].pc = "saved"]
    /\ OthersUnchanged

\* return {...}
Finish(p) ==
    /\ invocation # NoInvocations
    /\ invocation[p].pc = "saved"
    /\ invocation' = [invocation EXCEPT ![p].pc = "returned"]
    /\ cache' = cache
    /\ OthersUnchanged

\* -------------------------------------------------------- the front ends
\* the programs that call run_pipeline_from_folders
FrontEnds ==
    {"web_dashboard", "api_dashboard", "dashboard", "simple_dashboard",
     "run_dashboard"}

\* What the front end fe answers when run_pipeline_from_folders raised the
\* exception e; names is the failure the answer shows.
\*   web_dashboard     serve_dashboard has no try: the exception leaves
\*                     do_GET, the server logs it and closes the
\*                     connection; nothing is sent
\*   api_dashboard     except Exception: status 500 and an error page
\*                     with str(e)
\*   dashboard         except Exception: st.error, st.exception, st.stop
\*   simple_dashboard  load_data catches: st.error with e, returns None,
\*                     main shows "Failed to load data"
\*   run_dashboard     no try: the program ends with the traceback of e
AnswerToException(fe, e) ==
    CASE fe = "web_dashboard"    -> [kind |-> "connection_closed", names |-> ""]
      [] fe = "api_dashboard"    -> [kind |-> "error_page", names |-> e]
      [] fe = "dashboard"        -> [kind |-> "error_message", names |-> e]
      [] fe = "simple_dashboard" -> [kind |-> "error_message", names |-> e]
      [] fe = "run_dashboard"    -> [kind |-> "traceback", names |-> e]

\* What it answers when the pipeline returned: the dashboard, except that
\* run_dashboard reads metrics['total_60d'], a key the metrics do not have
AnswerToResult(fe) ==
    IF fe = "run_dashboard"
    THEN [kind |-> "traceback", names |-> "print_analytics_report: KeyError"]
    ELSE [kind |-> "dashboard", names |-> ""]

\* the front end's handler, after its call of run_pipeline_from_folders
Respond ==
    /\ frontend \in FrontEnds
    /\ response = NoResponse
    /\ pc \in {"returned", "raised"}
    /\ response' = IF pc = "raised"
                   THEN AnswerToException(frontend, error)
                   ELSE AnswerToResult(frontend)
    /\ UNCHANGED <<inputs, loaders, cache, cache_before, pc, run, locals,
                   results, frontend, invocation>>

\* ---------------------------------------------- load_merchants (etl.py)
\* A sheet of the workbook is its shape, the name columns it has (after the
\* renaming) and the name cells of its first row; a column the sheet does
\* not have holds NaN.

\* max(sheets.values(), key=lambda d: (d.shape[0], d.shape[1])): the keys
\* are tuples, compared by rows first, columns only between equal row
\* counts; of several sheets with the largest key, max returns the first
ShapeKeyLess(a, b) ==
    \/ a.nrows < b.nrows
    \/ a.nrows = b.nrows /\ a.ncols < b.ncols

PickSheet(sheets) ==
    CHOOSE i \in 1..Len(sheets) :
        /\ \A j \in 1..Len(sheets) : ~ShapeKeyLess(sheets[i], sheets[j])
        /\ \A j \in 1..(i - 1) : ShapeKeyLess(sheets[j], sheets[i])

\* a key that takes the DBA cell whenever the sheet has a DBA column
merchant_name_key_dba_first(columns, dba, legal, index) ==
    IF "dba_name" \in columns THEN Upper(Strip(AsStr(dba)))
    ELSE IF "legal_name" \in columns THEN Upper(Strip(AsStr(legal)))
    ELSE <<"MERCHANT_", index>>

\* the join key of a master row.  With both columns: fillna("") and
\* str.strip() turn a missing and a blank DBA cell into "", which
\* replace("", nan).fillna(legal.astype(str)) fills with the legal cell (a
\* missing legal cell reads "nan"); then strip and upper.  After Strip,
\* <<>> is the empty text.
merchant_name_key(columns, dba, legal, index) ==
    IF {"dba_name", "legal_name"} \subseteq columns
    THEN LET d == Strip(dba)
         IN  Upper(Strip(IF d = <<>> THEN AsStr(legal) ELSE d))
    ELSE IF "legal_name" \in columns THEN Upper(Strip(AsStr(legal)))
    ELSE IF "dba_name" \in columns THEN Upper(Strip(AsStr(dba)))
    ELSE <<"MERCHANT_", index>>

\* load_merchants on one workbook: the chosen sheet's shape and its first
\* row with the key; sheet is the place of the chosen sheet in the file
load_merchants(sheets) ==
    LET i == PickSheet(sheets)
        s == sheets[i]
    IN  [ sheet   |-> i,
          nrows   |-> s.nrows,
          columns |-> s.columns \cup {"merchant_name_key"},
          rows    |-> << [ dba_name          |-> s.dba,
                           legal_name        |-> s.legal,
                           merchant_name_key |->
                               merchant_name_key(s.columns, s.dba,
                                                 s.legal, "0") ] >> ]

\* --------------------------- parse_items_report_csv, load_sales (etl.py)
\* A file name is a sequence of characters in which the text
\* "-Revenue Item Sales" stands as one element.
Marker == "-Revenue Item Sales"

\* name.split("-Revenue Item Sales")[0]
BeforeMarker(name) ==
    LET hits == {i \in 1..Len(name) : name[i] = Marker}
    IN  IF hits = {} THEN name
        ELSE SubSeq(name, 1, (CHOOSE i \in hits : \A j \in hits : i <= j) - 1)

merch_key(name) == Upper(Strip(BeforeMarker(name)))

\* lines[:200]
HeaderLines == 200

\* The text of a sales file is `lead` lines without any of the words looked
\* for, followed by the listed lines.  A listed line is a header (a comma
\* line with "name" and "net sales"; net_sales_column tells whether a
\* column is called exactly "Net Sales", which is then not among the first
\* two), an item row with its parsed Net Sales cell, a two-cell summary row
\* (label, amount), or a filler line (other text, not blank).
None == [found |-> FALSE, net |-> <<>>]

\* parse_items_report_csv: the Net Sales_num column of the table read from
\* the first header line on, or None.  Rows that are not item rows have no
\* third cell: their Net Sales cell is NaN.
parse_items_report_csv(f) ==
    LET hdrs == { i \in 1..Len(f.lines) :
                    /\ f.lines[i].kind = "header"
                    /\ f.lead + i <= HeaderLines }
    IN  IF hdrs = {} THEN None
        ELSE LET h == CHOOSE i \in hdrs : \A j \in hdrs : i <= j
             IN  IF ~f.lines[h].net_sales_column THEN None
                 ELSE [ found |-> TRUE,
                        net   |-> [k \in 1..(Len(f.lines) - h) |->
                                     IF f.lines[h + k].kind = "item"
                                     THEN f.lines[h + k].net ELSE NaN] ]

\* Series.sum(): missing cells are skipped
RECURSIVE SumCells(_)
SumCells(cells) ==
    IF cells = <<>> THEN 0
    ELSE (IF Head(cells) = NaN THEN 0 ELSE Head(cells)[1])
             + SumCells(Tail(cells))

\* load_sales: one row per file whose table is not None and not empty
\* (src is the place of the file among the discovered files)
load_sales(files) ==
    LET F[n \in 0..Len(files)] ==
            IF n = 0 THEN <<>>
            ELSE LET df == parse_items_report_csv(files[n])
                 IN  IF ~df.found \/ df.net = <<>> THEN F[n - 1]
                     ELSE Append(F[n - 1],
                            [ src                |-> n,
                              merchant_name_key  |-> merch_key(files[n].name),
                              net_sales_60d_item |-> SumCells(df.net) ])
    IN  F[Len(files)]

NotLoaded == [loaded |-> FALSE, table |-> <<>>]

\* merch = load_merchants()
LoadMerchants ==
    /\ ~merchLoaded.loaded
    /\ merchLoaded' = [loaded |-> TRUE, table |-> load_merchants(workbook)]
    /\ UNCHANGED <<inputs, outside, salesLoaded, cache, cache_before, pc, run,
                   locals, results>>

\* sales = load_sales()
LoadSales ==
    /\ ~salesLoaded.loaded
    /\ salesLoaded' = [loaded |-> TRUE, table |-> load_sales(salesFiles)]
    /\ UNCHANGED <<inputs, outside, merchLoaded, cache, cache_before, pc, run,
                   locals, results>>

\* ---------------------------------------------- workbooks and sales files
\* sheets of a workbook, and lines listed of a sales file
MaxSheets == 2
MaxLines == 2
\* sales files discovered when the names are explored
MaxNamedFiles == 2

NameColumns == {"dba_name", "legal_name"}

DbaCells   == {NaN, <<" ">>, <<"a">>, <<" ", "b", " ">>}
LegalCells == {NaN, <<" ">>, <<"A">>, <<"b">>}

Sheet(r, c, cols, d, l) ==
    [nrows |-> r, ncols |-> c, columns |-> cols, dba |-> d, legal |-> l]

\* one sheet whose name cells vary
IsNamesWorkbook(w) ==
    \E cols \in SUBSET NameColumns :
        \E d \in IF "dba_name" \in cols THEN DbaCells ELSE {NaN},
           l \in IF "legal_name" \in cols THEN LegalCells ELSE {NaN} :
            w = << Sheet(10, 2, cols, d, l) >>

\* the shapes of a data sheet and of notes or legend sheets
SheetShapes == {<<10, 2>>, <<9, 100>>, <<9, 3>>, <<10, 1>>}

\* several sheets whose shapes vary
IsSheetsWorkbook(w) ==
    \E n \in 1..MaxSheets :
        \E s \in [1..n -> SheetShapes] :
            w = [i \in 1..n |->
                    Sheet(s[i][1], s[i][2], NameColumns, NaN, <<"A">>)]

OneSheet == << Sheet(10, 2, NameColumns, <<"a">>, <<"A">>) >>

FileNames ==
    { << "a", Marker, "-", "1", ".", "c", "s", "v" >>,
      << " ", "A", " ", Marker, ".", "c", "s", "v" >>,
      << "b", Marker, Marker, ".", "c", "s", "v" >>,
      << "B", " ", Marker, "-", "2", ".", "c", "s", "v" >> }

HeaderLine(exact) == [kind |-> "header", net_sales_column |-> exact]
ItemLine(cell)    == [kind |-> "item", net |-> cell]
SummaryLine(label, amount) ==
    [kind |-> "summary", label |-> label, amount |-> amount]
FillerLine        == [kind |-> "filler"]

LineKinds ==
    { HeaderLine(TRUE), HeaderLine(FALSE),
      ItemLine(<<Dollars(100)>>), ItemLine(NaN),
      SummaryLine("Net Sales", Dollars(100)),
      SummaryLine("Gross Sales", Dollars(120)),
      FillerLine }

\* the header is the first line, the last line looked at, or the line
\* after it; a summary block is on top, or after 19 or 20 other rows
Leads == {0, 19, 20, HeaderLines - 1, HeaderLines}

SalesFile(name, lead, lines) == [name |-> name, lead |-> lead, lines |-> lines]

TabularLines == << HeaderLine(TRUE), ItemLine(<<Dollars(100)>>) >>

\* files with a tabular block whose names vary
IsNamedFiles(fs) ==
    \E n \in 0..MaxNamedFiles :
        \E names \in [1..n -> FileNames] :
            fs = [i \in 1..n |-> SalesFile(names[i], 0, TabularLines)]

\* one file whose text varies
IsContentFiles(fs) ==
    \E lead \in Leads, n \in 0..MaxLines :
        \E lines \in [1..n -> LineKinds] :
            fs = << SalesFile(<< "a", Marker, ".", "c", "s", "v" >>,
                              lead, lines) >>

\* master rows listed in the enrichment runs, and sales files
MaxMerchRows == 3
MaxSalesFiles == 2
\* master rows listed in the whole-pipeline runs
MaxPipeMerchRows == 2

CustRow(i, e, p, s, m) ==
    [id |-> i, email |-> e, phone |-> p, since |-> s, marketing |-> m]

AllCustCols == {"id", "email", "phone", "since", "marketing"}

\* one recent opted-in customer with an ID-less duplicate, and one who
\* registered 29 days and 23 hours ago
SomeCustomers ==
    [ cols |-> AllCustCols,
      rows |-> << CustRow(<<41>>, <<"a">>, <<"5">>, At(TODAY - 1), <<"Y">>),
                  CustRow(NaN, <<"a">>, <<"5">>, Unparsed, NaN),
                  CustRow(<<42>>, NaN, <<"5">>, At(TODAY - 30 * 24 + 1),
                          <<"n">>) >> ]

OneCustomer ==
    [ cols |-> {"email", "phone"},
      rows |-> << CustRow(NaN, <<"a">>, NaN, Unparsed, NaN) >> ]

\* the columns of the master table that the model reads
MasterColumns ==
    { "legal_name", "dba_name", "mtd_volume", "last_month_volume",
      "merchant_name_key" }

IsMerchantTable(t, kinds, maxRows, pads) ==
    \E n \in 1..maxRows, p \in pads :
        \E r \in [1..n -> kinds] :
            t = [rows |-> r, pad |-> p, columns |-> MasterColumns]

\* a master file without a DBA column, without a legal-name column or
\* without both: load_merchants adds merchant_name_key and no name column
IsPartialTable(t, kinds) ==
    \E missing \in (SUBSET {"dba_name", "legal_name"}) \ {{}} :
        \E k \in kinds, p \in {0, 1} :
            t = [rows |-> <<k>>, pad |-> p,
                 columns |-> MasterColumns \ missing]

\* no master file was discovered: load_merchants returns pd.DataFrame(),
\* a table without rows and without columns
NoMasterFile == [rows |-> <<>>, pad |-> 0, columns |-> {}]

\* the loaders of the raw files are not part of these runs
NoRawFiles ==
    /\ workbook = <<>>
    /\ salesFiles = <<>>
    /\ merchLoaded = NotLoaded
    /\ salesLoaded = NotLoaded

IsSalesTable(t, kinds, maxFiles) ==
    \E n \in 0..maxFiles : \E r \in [1..n -> kinds] : t = r

SortBuilds == {"stable", "reversed"}

\* enrich_and_metrics over every bounded merchant and sales table
InitEnrich ==
    /\ custIn = SomeCustomers
    /\ custUnreadable = FALSE
    /\ \/ IsMerchantTable(merchIn, MerchantKinds, MaxMerchRows, PadChoices)
       \/ IsPartialTable(merchIn, MerchantKinds)
       \/ merchIn = NoMasterFile
    /\ IsSalesTable(salesIn, SalesKinds, MaxSalesFiles)
    /\ sortTies \in SortBuilds
    /\ cache = CacheMissing
    /\ cacheWritable = TRUE
    /\ NoRawFiles
    /\ InitRun
    /\ NoneOutside

NextEnrich == LoadCustomers \/ Enrich

SpecEnrich == InitEnrich /\ [][NextEnrich]_vars

\* whole runs of the pipeline, one after the other, on the same files
Init ==
    /\ custIn \in {SomeCustomers, OneCustomer}
    /\ custUnreadable = FALSE
    /\ \/ IsMerchantTable(merchIn,
                          {k \in MerchantKinds :
                              k.merchant_name_key \in {"Y", "W"}},
                          MaxPipeMerchRows, {0, MerchantFloor})
       \/ merchIn = NoMasterFile
    /\ IsSalesTable(salesIn,
                    {k \in SalesKinds : k.merchant_name_key = "Y"}, 1)
    /\ sortTies \in SortBuilds
    /\ cache \in CacheStates
    /\ cacheWritable \in BOOLEAN
    /\ NoRawFiles
    /\ InitRun
    /\ NoneOutside

Next ==
    \/ LoadCustomers
    \/ Enrich
    \/ Validate
    \/ LoadPrevious
    \/ PrintDiff
    \/ Save
    \/ Return
    \/ NextRun

Spec == Init /\ [][Next]_vars

\* two invocations that overlap, while the customer folder is replaced
InitConc ==
    /\ custIn \in {ManyCustomers(MaxConcRows), ManyCustomers(1)}
    /\ custUnreadable = FALSE
    /\ IsMerchantTable(merchIn,
                       {k \in MerchantKinds : k.merchant_name_key = "Y"},
                       1, {MerchantFloor})
    /\ IsSalesTable(salesIn,
                    {k \in SalesKinds : k.merchant_name_key = "Y"}, 1)
    /\ sortTies = "stable"
    /\ cache = CacheMissing
    /\ cacheWritable = TRUE
    /\ NoRawFiles
    /\ InitRun
    /\ frontend = "etl"
    /\ response = NoResponse
    /\ invocation = [p \in Invocations |-> NotBegun]

NextConc ==
    \/ ReplaceCustomerFiles
    \/ \E p \in Invocations :
          \/ Begin(p)
          \/ ReadPrevious(p)
          \/ Diff(p)
          \/ OpenForWrite(p)
          \/ DumpAndClose(p)
          \/ Finish(p)

SpecConc == InitConc /\ [][NextConc]_vars

\* one request to a front end: it runs the pipeline once and answers
InitFront ==
    /\ custIn \in {SomeCustomers, OneCustomer}
    /\ custUnreadable = FALSE
    /\ \/ IsMerchantTable(merchIn,
                          {k \in MerchantKinds :
                              k.merchant_name_key \in {"Y", "W"}},
                          MaxPipeMerchRows, PadChoices)
       \/ merchIn = NoMasterFile
    /\ IsSalesTable(salesIn,
                    {k \in SalesKinds : k.merchant_name_key = "Y"}, 1)
    /\ sortTies = "stable"
    /\ cache \in {CacheMissing, CacheJson(JsonObject(StaleSnapshot, {}))}
    /\ cacheWritable = TRUE
    /\ NoRawFiles
    /\ InitRun
    /\ frontend \in FrontEnds
    /\ response = NoResponse
    /\ invocation = NoInvocations

NextFront ==
    \/ LoadCustomers
    \/ Enrich
    \/ Validate
    \/ LoadPrevious
    \/ PrintDiff
    \/ Save
    \/ Return
    \/ Respond

SpecFront == InitFront /\ [][NextFront]_vars

\* the customer loader alone, over every bounded customer table
InitCust ==
    /\ \/ IsDedupInput(custIn)
       \/ IsSinceInput(custIn)
       \/ IsMarketingInput(custIn)
       \/ IsBarInput(custIn)
    /\ custUnreadable \in BOOLEAN
    /\ merchIn = NoMasterFile
    /\ salesIn = <<>>
    /\ sortTies = "stable"
    /\ cache = CacheMissing
    /\ cacheWritable = TRUE
    /\ NoRawFiles
    /\ InitRun
    /\ NoneOutside

NextCust == LoadCustomers

SpecCust == InitCust /\ [][NextCust]_vars

\* load_merchants and load_sales over bounded workbooks and sales files
InitLoad ==
    /\ \/ IsNamesWorkbook(workbook) /\ IsNamedFiles(salesFiles)
       \/ IsSheetsWorkbook(workbook) /\ salesFiles = <<>>
       \/ workbook = OneSheet /\ IsContentFiles(salesFiles)
    /\ merchLoaded = NotLoaded
    /\ salesLoaded = NotLoaded
    /\ custIn = OneCustomer
    /\ custUnreadable = FALSE
    /\ merchIn = NoMasterFile
    /\ salesIn = <<>>
    /\ sortTies = "stable"
    /\ cache = CacheMissing
    /\ cacheWritable = TRUE
    /\ InitRun
    /\ NoneOutside

NextLoad == LoadMerchants \/ LoadSales

SpecLoad == InitLoad /\ [][NextLoad]_vars

\* ------------------------------------------------- customer loader claims
Loaded == pc = "loaded"

\* input row i is a row of the returned table
Returned(i) == \E k \in 1..Len(customers) : customers[k].src = i

InRows == custIn.rows

\* C3: no two rows of the table load_customers returns share the same
\* non-null customer_id.
C3_UniqueCustomerId ==
    Loaded =>
        \A i, j \in 1..Len(customers) :
            (i # j /\ customers[i].customer_id # NaN)
                => customers[i].customer_id # customers[j].customer_id

\* the input repeats an ID and the duplicate was dropped
C3_Witness ==
    /\ Loaded
    /\ \E i, j \in 1..Len(InRows) :
          /\ i < j
          /\ InRows[i].id # NaN
          /\ InRows[i].id = InRows[j].id
          /\ Returned(i)
          /\ ~Returned(j)

Digits == {"0", "1", "2", "3", "4", "5", "6", "7", "8", "9"}

DigitsOnly(s) == SelectSeq(s, LAMBDA c : c \in Digits)

\* the composite key the specification describes: email lower-cased and
\* trimmed, phone reduced to its digits
NormalizedKey(r) == <<Strip(Lower(r.email)), DigitsOnly(r.phone)>>

HasContact(r) == r.email # NaN /\ r.phone # NaN

\* C4: among the returned rows without customer_id, no two share the same
\* normalized (email, phone) key.  Rows with a missing email or phone are
\* left out of the statement: the key is taken of the values a row carries.
C4_NormalizedKeyUnique ==
    Loaded =>
        \A i, j \in 1..Len(customers) :
            ( /\ i # j
              /\ customers[i].customer_id = NaN
              /\ customers[j].customer_id = NaN
              /\ HasContact(customers[i])
              /\ HasContact(customers[j]) )
                => NormalizedKey(customers[i]) # NormalizedKey(customers[j])

\* C5: no returned row without customer_id has the normalized key of a
\* returned row with customer_id (rows with a missing email or phone left
\* out, as for C4).
C5_NoNormalizedCollision ==
    Loaded =>
        \A i, j \in 1..Len(customers) :
            ( /\ customers[i].customer_id = NaN
              /\ customers[j].customer_id # NaN
              /\ HasContact(customers[i])
              /\ HasContact(customers[j]) )
                => NormalizedKey(customers[i]) # NormalizedKey(customers[j])

\* input rows i (with ID) and j (without) carry the same email and phone
SameContactPair(i, j) ==
    /\ InRows[i].id # NaN
    /\ InRows[j].id = NaN
    /\ HasContact(InRows[i])
    /\ InRows[i].email = InRows[j].email
    /\ InRows[i].phone = InRows[j].phone

FirstOfItsId(i) == \A k \in 1..(i - 1) : InRows[k].id # InRows[i].id

\* C6 as claimed: whenever an ID row and an ID-less row carry exactly the
\* same email and phone, exactly one record is returned for them, the ID row.
C6_Original ==
    Loaded =>
        \A i, j \in 1..Len(InRows) :
            SameContactPair(i, j) => (Returned(i) /\ ~Returned(j))

\* C6 (amended): when the ID row is the first row with its customer_id, it is
\* returned and the ID-less row with the same email and phone is not.
C6_CollisionWithKeptIdRow ==
    Loaded =>
        \A i, j \in 1..Len(InRows) :
            (SameContactPair(i, j) /\ FirstOfItsId(i))
                => (Returned(i) /\ ~Returned(j))

\* an ID-less row was excluded by step 3 alone: no other ID-less row has
\* its key, a kept ID row has
C6_Witness ==
    /\ Loaded
    /\ \E i, j \in 1..Len(InRows) :
          /\ SameContactPair(i, j)
          /\ FirstOfItsId(i)
          /\ \A k \in 1..Len(InRows) :
                (k # j /\ InRows[k].id = NaN)
                    => EmailPhoneKey(InRows[k]) # EmailPhoneKey(InRows[j])
          /\ Len(customers) = Len(InRows) - 1

\* C7: a customer is active iff the registration text parses and lies in
\* the 30 days up to TODAY: at most TODAY, and less than 30 whole days
\* (720 hours) before it.
C7_ActiveWindow ==
    Loaded =>
        \A k \in 1..Len(customers) :
            LET raw == InRows[customers[k].src].since
            IN  customers[k].active_flag <=>
                    ( /\ "since" \in custIn.cols
                      /\ raw.parses
                      /\ raw.t <= TODAY
                      /\ TODAY - raw.t < 30 * 24 )

\* a registration 29 days and 23 hours old was flagged active
C7_Witness ==
    /\ Loaded
    /\ \E k \in 1..Len(customers) :
          /\ customers[k].active_flag
          /\ customers[k].customer_since = [nat |-> FALSE, t |-> TODAY - 719]

\* ------------------------------------------- enrichment and metrics claims
HasEnriched == pc \notin {"start", "loaded"} /\ DOMAIN enriched # {}

SalesAmountsOf(key) ==
    { salesIn[k].net_sales_60d_item :
        k \in {j \in 1..Len(salesIn) : salesIn[j].merchant_name_key = key} }

\* C1: in every enriched row net_sales_60d is the item figure when there is
\* one (a sales file has the merchant's key), and otherwise mtd_volume +
\* last_month_volume with missing volumes as 0; never item plus fallback.
C1_CoalesceNotSum ==
    HasEnriched =>
        \A k \in 1..Len(enriched.rows) :
            LET e   == enriched.rows[k]
                r   == merchIn.rows[e.row]
                mtd == IF r.mtd_volume = NaN THEN 0 ELSE r.mtd_volume[1]
                lm  == IF r.last_month_volume = NaN THEN 0
                       ELSE r.last_month_volume[1]
                own == SalesAmountsOf(r.merchant_name_key)
            IN  /\ (own = {}) <=> (e.net_sales_60d_item = NaN)
                /\ own # {} =>
                      /\ e.net_sales_60d_item[1] \in own
                      /\ e.net_sales_60d = e.net_sales_60d_item[1]
                /\ own = {} => e.net_sales_60d = mtd + lm

\* mtd = 100, last month = 100 and a sales file of 250 gave 250
C1_Witness ==
    /\ HasEnriched
    /\ \E k \in 1..Len(enriched.rows) :
          /\ enriched.rows[k].mtd_volume = Dollars(100)
          /\ enriched.rows[k].last_month_volume = Dollars(100)
          /\ enriched.rows[k].net_sales_60d_item = <<Dollars(250)>>
          /\ enriched.rows[k].net_sales_60d = Dollars(250)

\* C2: a merchant's active_flag is true iff its net_sales_60d > 0, and
\* merchants_active counts exactly those rows (a pad row has figure 0).
C2_ActiveIffPositive ==
    HasEnriched =>
        /\ \A k \in 1..Len(enriched.rows) :
              enriched.rows[k].active_flag
                  <=> enriched.rows[k].net_sales_60d > 0
        /\ metrics.merchants_active =
              Cardinality({k \in 1..Len(enriched.rows) :
                              enriched.rows[k].net_sales_60d > 0})

\* a merchant without volume and without sales file is inactive beside an
\* active one
C2_Witness ==
    /\ HasEnriched
    /\ metrics.merchants_active > 0
    /\ \E k \in 1..Len(enriched.rows) :
          /\ enriched.rows[k].merchant_name_key = "Z"
          /\ enriched.rows[k].net_sales_60d_item = NaN
          /\ enriched.rows[k].net_sales_60d = 0
          /\ ~enriched.rows[k].active_flag

\* sums over the whole merged table, pad rows (all zero) included
SumDaily   == SumOver(enriched.rows, "daily_est")
SumWeekly  == SumOver(enriched.rows, "weekly_est")
SumMonthly == SumOver(enriched.rows, "monthly_est")

\* |a - b| < 1e-6 dollar, a and b in units of 1/48000 dollar
Within1e6(a, b) == Abs(a - b) * 1000000 < 48000

\* C8: the daily estimates sum to the reported platform_total_60d / 60
\* within 1e-6 (weekly: total * 7 / 60, monthly: total / 2), so the
\* window-math assertion never fails.  The reported total is in cents:
\* c cents / 60 is 8c units of 1/48000 dollar.  Tables below the merchant
\* floor never reach the assertion and are left out.
C8_WindowMathNeverFails ==
    /\ error # "Window math mismatch"
    /\ (HasEnriched /\ TableLen(enriched) >= MerchantFloor) =>
          /\ Within1e6(SumDaily, metrics.platform_total_60d * 8)
          /\ Within1e6(SumWeekly, metrics.platform_total_60d * 8 * 7)
          /\ Within1e6(SumMonthly, metrics.platform_total_60d * 8 * 30)

\* the figure of the row at a place of the merged table
NetAt(pos) ==
    IF pos <= Len(enriched.rows) THEN enriched.rows[pos].net_sales_60d
    ELSE PadRow(pos).net_sales_60d

\* C9: top3 holds min(3, merchants) rows in descending order of
\* net_sales_60d, equal figures in original row order, also at the cut-off.
C9_Top3DescendingStable ==
    HasEnriched =>
        LET t    == metrics.top3
            n    == TableLen(enriched)
            in3  == {t[k].pos : k \in 1..Len(t)}
        IN  /\ Len(t) = (IF n < 3 THEN n ELSE 3)
            /\ \A k \in 1..Len(t) : t[k].net_sales_60d = NetAt(t[k].pos)
            /\ \A i, j \in 1..Len(t) :
                  i < j =>
                      \/ t[i].net_sales_60d > t[j].net_sales_60d
                      \/ /\ t[i].net_sales_60d = t[j].net_sales_60d
                         /\ t[i].pos < t[j].pos
            /\ \A p \in (1..n) \ in3 :
                  \A k \in 1..Len(t) :
                      \/ t[k].net_sales_60d > NetAt(p)
                      \/ /\ t[k].net_sales_60d = NetAt(p)
                         /\ t[k].pos < p

\* C10: runs on the same files return the same metrics, whatever the cache
\* held when each of them started.
C10_SameMetricsEveryRun ==
    \A i, j \in 1..Len(results) : results[i].metrics = results[j].metrics

\* the second run read the snapshot the first run saved, and returned
C10_Witness ==
    /\ Len(results) = 2
    /\ run = 2
    /\ pc = "returned"
    /\ previous_metrics = JsonObject(JsonDoc(results[1].metrics), {})
    /\ results[1].metrics.customers_active > 0
    /\ results[1].metrics.merchants_active > 0

\* ------------------------------------------------------ pipeline claims
\* C11: when no merchant master file is found, so that load_merchants
\* returns an empty table, enrich_and_metrics does not raise and returns
\* metrics with merchants_total = 0, merchants_active = 0,
\* merchants_inactive = 0, all platform volume figures 0 and an empty top3.
C11_EmptyMasterZeroMetrics ==
    (merchIn = NoMasterFile /\ pc \notin {"start", "loaded"}) =>
        /\ error # "enrich_and_metrics: KeyError"
        /\ DOMAIN metrics # {}
        /\ metrics.merchants_total = 0
        /\ metrics.merchants_active = 0
        /\ metrics.merchants_inactive = 0
        /\ metrics.platform_total_60d = 0
        /\ metrics.platform_daily = 0
        /\ metrics.platform_weekly = 0
        /\ metrics.platform_monthly = 0
        /\ metrics.top3 = <<>>

AssertionMessages ==
    {"Merchant count unexpectedly low", "Window math mismatch"}

\* the current run returned a result structure
ReturnedThisRun == \E i \in 1..Len(results) : results[i].run = run

\* C12: if the enriched table has fewer rows than the merchant floor (700)
\* or the window-math check fails, the run ends by raising at the
\* assertion: it returns no result structure, prints no diff report and
\* leaves the cache file as it was before the run.
C12_FailedAssertionHalts ==
    /\ ( /\ HasEnriched
         /\ pc # "enriched"
         /\ \/ TableLen(enriched) < MerchantFloor
            \/ WindowMathDiff(enriched, metrics) * 1000000 >= 48000 )
          => (pc = "raised" /\ error \in AssertionMessages)
    /\ (pc = "raised" /\ error \in AssertionMessages) =>
          /\ ~ReturnedThisRun
          /\ DOMAIN report = {}
          /\ cache = cache_before

\* a run over too few merchants was halted while the cache held a snapshot
C12_Witness ==
    /\ pc = "raised"
    /\ error = "Merchant count unexpectedly low"
    /\ TableLen(enriched) < MerchantFloor
    /\ cache = CacheJson(JsonObject(StaleSnapshot, {}))
    /\ cache_before = cache

\* the cache file holds a JSON object whose fields are numbers
WellFormedSnapshot(c) ==
    \/ c.kind = "saved"
    \/ /\ c.kind = "json"
       /\ c.doc.type = "object"
       /\ c.doc.text = {}
       /\ DOMAIN c.doc.doc # {}

\* C13: whatever the cache file is (missing, unreadable, not JSON, JSON
\* that is not a well-formed snapshot), neither load_previous_metrics nor
\* print_diff_report raises, and the run treats it as no previous snapshot.
C13_AnyCacheIsNoPrevious ==
    /\ error \notin { "load_previous_metrics: PermissionError",
                      "print_diff_report: TypeError" }
    /\ (DOMAIN report # {} /\ ~WellFormedSnapshot(cache_before))
          => report.first_run

\* the previous snapshot this run compared with: a JSON object with
\* numeric fields
ComparedWithSnapshot ==
    /\ DOMAIN report # {}
    /\ previous_metrics.type = "object"
    /\ previous_metrics.text = {}
    /\ DOMAIN previous_metrics.doc # {}

\* C14: print_diff_report reports a field exactly when it is one of the ten
\* compared fields, is present in the previous and in the current snapshot
\* and its value differs; an unchanged field is never reported, and when no
\* field changed the report says that no changes were detected.
C14_ReportsExactlyTheChanges ==
    ComparedWithSnapshot =>
        /\ Cardinality(CompareKeys) = 10
        /\ report.raised = ""
        /\ ~report.first_run
        /\ \A k \in DOMAIN metrics \cup DOMAIN previous_metrics.doc :
              k \in report.changed <=>
                  ( /\ k \in CompareKeys
                    /\ k \in DOMAIN metrics
                    /\ k \in DOMAIN previous_metrics.doc
                    /\ metrics[k] # previous_metrics.doc[k] )
        /\ report.no_changes <=> report.changed = {}

\* a report with a changed compared field, an unchanged compared field and
\* a changed field that is not compared
C14_Witness ==
    /\ ComparedWithSnapshot
    /\ "merchants_total" \in report.changed
    /\ "customers_active" \notin report.changed
    /\ {"customers_active", "customers_inactive"}
           \subseteq DOMAIN previous_metrics.doc
    /\ metrics.customers_active = previous_metrics.doc.customers_active
    /\ metrics.customers_inactive # previous_metrics.doc.customers_inactive

\* C15: a failure of the diff/cache step (reading the previous snapshot,
\* printing the diff, writing the current snapshot) never keeps the run
\* from returning: no run whose table passed both assertions ends raised.
C15_DiffCacheFailureNeverBlocks ==
    ~( /\ pc = "raised"
       /\ HasEnriched
       /\ TableLen(enriched) >= MerchantFloor
       /\ WindowMathOk(enriched, metrics) )

\* ------------------------------------------------------- loader claims
\* C16: if one of several discovered customer files cannot be read,
\* load_customers does not raise: the file contributes no rows and the
\* rows of the other files are loaded, deduplicated and returned.
C16_UnreadableFileIsEmpty ==
    (custUnreadable /\ pc # "start") =>
        /\ pc = "loaded"
        /\ customers = load_customers(custIn)

\* C17: every loaded master row appears exactly once in the enriched table
\* for any sales aggregate, and merchants_total is the number of loaded
\* master rows, also when several sales files give the same key.
C17_EveryMerchantOnce ==
    HasEnriched =>
        /\ TableLen(enriched) = Len(merchIn.rows) + merchIn.pad
        /\ metrics.merchants_total = Len(merchIn.rows) + merchIn.pad
        /\ \A n \in 1..Len(merchIn.rows) :
              Cardinality({k \in 1..Len(enriched.rows) :
                              enriched.rows[k].row = n}) = 1

\* the DBA cell of a loaded master row is present and not blank
HasDba(t, r) ==
    /\ "dba_name" \in t.columns
    /\ r.dba_name # NaN
    /\ Strip(r.dba_name) # <<>>

HasLegal(t, r) == "legal_name" \in t.columns /\ r.legal_name # NaN

\* two names agree up to case and surrounding blanks
SameName(a, b) == Lower(Strip(a)) = Lower(Strip(b))

C19_LargestFootprint ==
    merchLoaded.loaded =>
        LET s == workbook[merchLoaded.table.sheet]
        IN  \A j \in 1..Len(workbook) :
                s.nrows * s.ncols >= workbook[j].nrows * workbook[j].ncols

\* rows scanned for a summary block
SummaryRows == 20

\* C20: a sales file without header line in its first 200 lines is scanned
\* for a two-cell row in its first 20 rows whose first cell is "Net Sales"
\* or "Gross Sales", and the second cell is the merchant's figure.
C20_SummaryFallback ==
    salesLoaded.loaded =>
        \A n \in 1..Len(salesFiles) :
            LET f == salesFiles[n]
                hdrs == { i \in 1..Len(f.lines) :
                            /\ f.lines[i].kind = "header"
                            /\ f.lead + i <= HeaderLines }
                sums == { i \in 1..Len(f.lines) :
                            /\ f.lines[i].kind = "summary"
                            /\ f.lead + i <= SummaryRows }
            IN  (hdrs = {} /\ sums # {}) =>
                    \E k \in 1..Len(salesLoaded.table) :
                        /\ salesLoaded.table[k].src = n
                        /\ \E i \in sums :
                              salesLoaded.table[k].net_sales_60d_item
                                  = f.lines[i].amount

\* no figure can be taken from the file: no header line in the window, no
\* column called "Net Sales", or no row after the header with a parsed
\* Net Sales cell
NoFigure(f) ==
    LET hdrs == { i \in 1..Len(f.lines) :
                    /\ f.lines[i].kind = "header"
                    /\ f.lead + i <= HeaderLines }
        h == CHOOSE i \in hdrs : \A j \in hdrs : i <= j
    IN  \/ hdrs = {}
        \/ ~f.lines[h].net_sales_column
        \/ \A k \in (h + 1)..Len(f.lines) :
              f.lines[k].kind = "item" => f.lines[k].net = NaN

\* C21: a sales file from which no figure can be extracted gives no row
\* in the sales aggregate, in particular no row with the figure zero.
C21_NoFigureNoRow ==
    salesLoaded.loaded =>
        \A n \in 1..Len(salesFiles) :
            NoFigure(salesFiles[n]) =>
                \A k \in 1..Len(salesLoaded.table) :
                    salesLoaded.table[k].src # n

\* the four tokens of the marketing rule
FourTokens ==
    { <<"y", "e", "s">>, <<"t", "r", "u", "e">>, <<"1">>, <<"y">> }

\* C22: marketing_opt_in is true iff the source marketing value, compared
\* without regard to case, is one of "yes", "true", "1", "y"; every other
\* value gives false, and without a marketing column every row is false.
C22_MarketingFourTokens ==
    Loaded =>
        \A k \in 1..Len(customers) :
            customers[k].marketing_opt_in <=>
                ( /\ "marketing" \in custIn.cols
                  /\ InRows[customers[k].src].marketing # NaN
                  /\ Lower(InRows[customers[k].src].marketing) \in FourTokens )

\* the current run got past both assertions of run_pipeline_from_folders
PassedValidation ==
    /\ HasEnriched
    /\ pc # "enriched"
    /\ TableLen(enriched) >= MerchantFloor
    /\ WindowMathOk(enriched, metrics)

\* the current run is over: it returned or it raised
RunOver == pc \in {"returned", "raised"}

\* C23: in every run that passes validation the cache file is opened for
\* reading exactly once and for writing exactly once, the read before the
\* write, and the diff report compares the run's metrics with what the
\* file held when the run began, never with the run's own snapshot.
C23_ReadOnceWriteOnce ==
    /\ cache_ops \in {<<>>, <<"read">>, <<"read", "write">>}
    /\ (PassedValidation /\ RunOver) => cache_ops = <<"read", "write">>
    /\ DOMAIN report # {} =>
          previous_metrics = load_previous_metrics(cache_before).value

\* the merchant keys of the master rows and of the sales rows
KeysInPlay ==
    {merchIn.rows[n].merchant_name_key : n \in 1..Len(merchIn.rows)}
        \cup {salesIn[k].merchant_name_key : k \in 1..Len(salesIn)}

\* C24: the total of each parsed sales file enters platform_total_60d at
\* most once: for every key the enriched table has no more rows carrying
\* an item figure than there are sales rows with that key, also when two
\* master rows share the key.
C24_EachFileTotalOnce ==
    HasEnriched =>
        \A key \in KeysInPlay :
            Cardinality({k \in 1..Len(enriched.rows) :
                            /\ enriched.rows[k].merchant_name_key = key
                            /\ enriched.rows[k].net_sales_60d_item # NaN})
                <= Cardinality({j \in 1..Len(salesIn) :
                                   salesIn[j].merchant_name_key = key})

\* C25: deduplication never loses a customer: every input row that is not
\* returned has a returned row with the same customer_id or, when it has
\* no customer_id, a returned row with the same email and the same phone.
C25_NoCustomerLost ==
    Loaded =>
        \A i \in 1..Len(InRows) :
            ~Returned(i) =>
                \E k \in 1..Len(customers) :
                    IF InRows[i].id # NaN
                    THEN customers[k].customer_id = InRows[i].id
                    ELSE /\ customers[k].email = InRows[i].email
                         /\ customers[k].phone = InRows[i].phone

\* C26: rows without customer_id in which both email and phone are missing
\* are distinct customers: each of them is returned, neither merged with
\* another such row nor excluded because a row with customer_id also
\* lacks email and phone.
C26_BlankRowsAreDistinct ==
    Loaded =>
        \A i \in 1..Len(InRows) :
            ( /\ InRows[i].id = NaN
              /\ InRows[i].email = NaN
              /\ InRows[i].phone = NaN ) => Returned(i)

\* C27: when the merchant master has a legal-name column but no DBA-name
\* column, enrich_and_metrics does not raise and returns the enriched
\* table and the full metrics, top3 included.
C27_LegalOnlyMasterEnriches ==
    ( /\ "legal_name" \in merchIn.columns
      /\ "dba_name" \notin merchIn.columns
      /\ pc \notin {"start", "loaded"} ) =>
        /\ pc # "raised"
        /\ HasEnriched
        /\ DOMAIN metrics # {}
        /\ "top3" \in DOMAIN metrics

\* the run before the current one returned, after saving its snapshot
PreviousRunCompleted ==
    /\ run >= 2
    /\ \E i \in 1..Len(results) : results[i].run = run - 1

\* C28: a run that immediately follows a completed run, on unchanged input
\* files, reports no changed field: every compared field read back from
\* the cache equals the freshly computed one.
C28_UnchangedInputsNoChanges ==
    (PreviousRunCompleted /\ DOMAIN report # {}) =>
        /\ report.raised = ""
        /\ ~report.first_run
        /\ report.changed = {}
        /\ report.no_changes
        /\ \A k \in CompareKeys : previous_metrics.doc[k] = metrics[k]

\* the second run printed its report, and the daily platform figure is a
\* whole number of dimes that is not a whole number of dollars ("7.5")
C28_Witness ==
    /\ PreviousRunCompleted
    /\ DOMAIN report # {}
    /\ report.no_changes
    /\ metrics.platform_daily % 10 = 0
    /\ metrics.platform_daily % 100 # 0

\* an answer that shows the failure
ExplicitErrorKinds == {"error_page", "error_message", "traceback"}

\* C30: every front end answers a failed assertion of the pipeline with an
\* explicit error state that names the failure, never with a dashboard
\* and never with nothing.
C30_FrontEndsShowTheFailure ==
    (pc = "raised" /\ error \in AssertionMessages /\ response # NoResponse)
        => /\ response.kind \in ExplicitErrorKinds
           /\ response.names = error

\* both overlapping invocations are over
BothOver ==
    /\ invocation # NoInvocations
    /\ \A p \in Invocations : invocation[p].pc \in {"returned", "raised"}

\* C29: when two invocations overlap, the cache file is last-writer-wins:
\* once both are over it holds the complete snapshot of one of them, never
\* a mixture or a truncated document, and neither of them failed.
C29_LastWriterWins ==
    BothOver =>
        /\ \A p \in Invocations : invocation[p].pc = "returned"
        /\ cache.kind = "saved"
        /\ \E p \in Invocations :
              cache.doc = json_dump(JsonDoc(invocation[p].metrics))
====
